---- MODULE Spec2Model ----
(***************************************************************************)
(* FontSniffer: the harvesting engine (Sniffer.py) and the thread that     *)
(* drives it from the front-end (gui_model.py, run_search).                *)
(*                                                                         *)
(* One search run is modelled: the generator FontSniffer.search, the       *)
(* discovery fetch of page 1, the page tasks executed by the thread pool,  *)
(* the request counters (a dict updated with unsynchronised += from the    *)
(* worker threads), the stop predicate polled by the engine, and the       *)
(* consumer that pulls the generator's events.                             *)
(***************************************************************************)
EXTENDS Integers, Sequences, FiniteSets, TLC

(***************************************************************************)
(* Bounds of the model.                                                    *)
(***************************************************************************)
\* Largest page number a pager link carries, and the number of page tasks
\* whose execution is followed (tasks 1..MaxPages of the submitted ones).
MaxPages == 2
\* Transport failures that occur in one run.
MaxFailures == 1
\* Changes of the stop predicate's value in one run.
MaxToggles == 2
\* Snapshots a caller takes with get_stats in one run.
MaxSnapshots == 2
\* Searches started from the front-end, one after the other.
MaxSearches == 2

(***************************************************************************)
(* Program constants.                                                      *)
(***************************************************************************)
max_retries == 3
FALLBACK_PAGES == 383
MIN_WORKERS == 1
MAX_WORKERS == 20

(***************************************************************************)
(* Text: a string is a sequence of characters.                             *)
(***************************************************************************)
Chars == {"A", "a", "B", "b", " "}

\* str.lower() on one character.
LowerChar(c) == CASE c = "A" -> "a" [] c = "B" -> "b" [] OTHER -> c

\* str.lower()
Lower(s) == [i \in 1..Len(s) |-> LowerChar(s[i])]

\* the `in` operator on strings: needle is a substring of hay.
Contains(hay, needle) ==
    \E i \in 0..(Len(hay) - Len(needle)) :
        SubSeq(hay, i + 1, i + Len(needle)) = needle

RECURSIVE LStrip(_)
LStrip(s) == IF s # <<>> /\ Head(s) = " " THEN LStrip(Tail(s)) ELSE s

RECURSIVE RStrip(_)
RStrip(s) ==
    IF s # <<>> /\ s[Len(s)] = " " THEN RStrip(SubSeq(s, 1, Len(s) - 1)) ELSE s

\* get_text(strip=True) of an anchor holding one text node.
Strip(s) == RStrip(LStrip(s))

(***************************************************************************)
(* Pages as the transport returns them.                                    *)
(***************************************************************************)
NoHtml ==
    [kind |-> "none", raises |-> FALSE, pager |-> FALSE, links |-> <<>>,
     section |-> FALSE, ul |-> FALSE, items |-> <<>>]

\* A pager link: whether its href matches list_200_(\d+)\.html, and the number.
Link(m, n) == [matches |-> m, num |-> n]

\* A list item: its first anchor of class mg-r10, if any, with the anchor's
\* href (does it start with /font/) and text.
NoAnchor == [anchor |-> FALSE, font |-> FALSE, path |-> "", text |-> <<>>]
Anchor(font, path, text) ==
    [anchor |-> TRUE, font |-> font, path |-> path, text |-> text]

\* raises: the markup makes the parser raise.
\* pager: whether the div of class pages is present; links: its links.
\* section, ul: whether the results container and the item list are present.
Html(raises, pager, links, section, ul, items) ==
    [kind |-> "html", raises |-> raises, pager |-> pager, links |-> links,
     section |-> section, ul |-> ul, items |-> items]

\* Pagers whose page numbers are at most n.
PagerLinks(n) ==
    {<<>>, <<Link(FALSE, 0)>>}
    \cup {<<Link(TRUE, k)>> : k \in 0..n}
    \cup {<<Link(TRUE, k), Link(FALSE, 0), Link(TRUE, 1)>> : k \in 1..n}

ItemLists ==
    { <<>>,
      <<NoAnchor, Anchor(TRUE, "f2", <<" ", "a", "B", " ">>)>>,
      <<Anchor(TRUE, "f3", <<"B">>), Anchor(FALSE, "s4", <<"a">>),
        Anchor(TRUE, "f5", <<"b", "A">>)>> }

RaisingHtml == Html(TRUE, FALSE, <<>>, FALSE, FALSE, <<>>)
BareHtml == Html(FALSE, FALSE, <<>>, FALSE, FALSE, <<>>)

\* What a successful GET of page 1 can return to the discovery.
DiscoveryBodies(n) ==
    {BareHtml, RaisingHtml}
    \cup {Html(FALSE, TRUE, l, FALSE, FALSE, <<>>) : l \in PagerLinks(n)}

\* What a successful GET can return to a page task.
TaskBodies ==
    {BareHtml, Html(FALSE, FALSE, <<>>, TRUE, FALSE, <<>>), RaisingHtml}
    \cup {Html(FALSE, FALSE, <<>>, TRUE, TRUE, l) : l \in ItemLists}

Keywords == {<<>>, <<"a">>, <<"A", "B">>}

SITE_ORIGIN == "http://www.downcc.com"

\* urljoin(origin, href) for an absolute-path href.
urljoin(origin, path) == <<origin, path>>

Max(S) == CHOOSE x \in S : \A y \in S : y <= x

(***************************************************************************)
(* FontSniffer.__init__: the clamp of the worker count.                    *)
(***************************************************************************)
\* The clamp without its lower end.
ClampWorkersUpperOnly(n) == IF n < MAX_WORKERS THEN n ELSE MAX_WORKERS

\* line 39: max(1, min(max_workers, 20))
ClampWorkers(n) ==
    LET lo == IF n < MAX_WORKERS THEN n ELSE MAX_WORKERS
    IN  IF lo > MIN_WORKERS THEN lo ELSE MIN_WORKERS

ZeroStats ==
    [total_requests |-> 0, successful_requests |-> 0,
     failed_requests |-> 0, retried_requests |-> 0]

(***************************************************************************)
(* FontSniffer._detect_total_pages, after the fetch of page 1 returned     *)
(* html (NoHtml when the fetch returned None).                             *)
(***************************************************************************)
DetectTotalPages(html) ==
    IF html = NoHtml THEN FALLBACK_PAGES
    ELSE IF html.raises THEN FALLBACK_PAGES
    ELSE IF ~ html.pager THEN FALLBACK_PAGES
    ELSE LET page_links == SelectSeq(html.links, LAMBDA l : l.matches)
             page_numbers == {page_links[i].num : i \in 1..Len(page_links)}
         IN  IF page_links # <<>>
             THEN (IF page_numbers # {} THEN Max(page_numbers) ELSE FALLBACK_PAGES)
             ELSE FALLBACK_PAGES

(***************************************************************************)
(* FontSniffer._parse_and_filter_page, after the fetch returned html.      *)
(* The result is [raised, fonts]: fonts is the list of (name, url).        *)
(***************************************************************************)
\* The test of line 161 without its "not".
KeywordMatchesInverted(keyword_lower, font_name) ==
    ~ (keyword_lower # <<>> /\ Contains(Lower(font_name), keyword_lower))

\* line 161: the item is skipped when
\* keyword_lower and keyword_lower not in font_name.lower()
KeywordMatches(keyword_lower, font_name) ==
    ~ (keyword_lower # <<>> /\ ~ Contains(Lower(font_name), keyword_lower))

\* The matches collected last item first.
RECURSIVE FilterItemsReversed(_, _)
FilterItemsReversed(items, keyword_lower) ==
    IF items = <<>> THEN <<>>
    ELSE LET li == Head(items)
             rest == FilterItemsReversed(Tail(items), keyword_lower)
             font_name == Strip(li.text)
         IN  IF ~ (li.anchor /\ li.font) THEN rest
             ELSE IF keyword_lower # <<>>
                     /\ ~ Contains(Lower(font_name), keyword_lower) THEN rest
             ELSE rest \o
                  <<[name |-> font_name, url |-> urljoin(SITE_ORIGIN, li.path)]>>

\* lines 151-168: the loop over the items of the list
RECURSIVE FilterItems(_, _)
FilterItems(items, keyword_lower) ==
    IF items = <<>> THEN <<>>
    ELSE LET li == Head(items)
             rest == FilterItems(Tail(items), keyword_lower)
             font_name == Strip(li.text)
         IN  IF ~ (li.anchor /\ li.font) THEN rest
             ELSE IF ~ KeywordMatches(keyword_lower, font_name) THEN rest
             ELSE <<[name |-> font_name, url |-> urljoin(SITE_ORIGIN, li.path)]>>
                  \o rest

ParseAndFilterPage(html, kw) ==
    IF html = NoHtml THEN [raised |-> FALSE, fonts |-> <<>>]
    ELSE IF html.raises THEN [raised |-> TRUE, fonts |-> <<>>]
    ELSE IF ~ html.section THEN [raised |-> FALSE, fonts |-> <<>>]
    ELSE IF ~ html.ul THEN [raised |-> FALSE, fonts |-> <<>>]
    ELSE [raised |-> FALSE, fonts |-> FilterItems(html.items, Lower(kw))]

(***************************************************************************)
(* State.                                                                  *)
(***************************************************************************)
VARIABLES
    caller,        \* who iterates search(): "run_search" (gui_model.py) or
                   \* "direct" (a plain for loop over search(), as in __main__)
    max_workers,   \* FontSniffer.max_workers
    keyword,       \* the keyword of the run
    is_searching,  \* the collaborator's flag; should_stop() is its negation
    toggles,       \* changes of the flag so far
    heap,          \* dict objects: heap[STATS] is FontSniffer.stats, the others
                   \* are the dicts get_stats has returned
    held,          \* the references get_stats has returned, in order
    th,            \* th[0]: the discovery's _fetch_page(1); th[p], p >= 1: the
                   \* page task _parse_and_filter_page(p)
    gen,           \* the generator search(): position and locals
    drained,       \* the futures as_completed has handed to the drain loop
    out,           \* the events search() has yielded, in order
    result_queue,  \* the items run_search has put on result_queue, in order
    hist,          \* history of the run, read by the properties only
    env,           \* what the surroundings do in this run: how many transport
                   \* failures, changes of the stop predicate and get_stats
                   \* calls occur, and which bodies the site serves
    gui            \* the front-end's consumer: whether check_queue is
                   \* scheduled (polling), how many of the items of
                   \* result_queue it has taken, and the searches started

vars == <<caller, max_workers, keyword, is_searching, toggles, heap, held, th,
          gen, drained, out, result_queue, hist, env, gui>>

STATS == 0
stats == heap[STATS]

Fetchers == 0..MaxPages
Tasks == 1..MaxPages

(***************************************************************************)
(* The runs explored.  Each scenario fixes who calls search(), the         *)
(* max_workers values handed to the constructor, the keywords, how many    *)
(* transport failures, changes of the stop predicate and get_stats calls   *)
(* occur, what the site serves, and how many of the submitted page tasks   *)
(* are followed through their execution (follow).                          *)
(***************************************************************************)
Scenario(cs, ws, ks, nfail, ntoggle, nsnap, nfollow, bs) ==
    [callers |-> cs, workers |-> ws, keywords |-> ks, failures |-> nfail,
     toggles |-> ntoggle, snapshots |-> nsnap, follow |-> nfollow,
     pagers |-> DiscoveryBodies(nfollow), bodies |-> bs]

ListHtml(l) == Html(FALSE, FALSE, <<>>, TRUE, TRUE, l)
OneFont == <<Anchor(TRUE, "f1", <<"A", "b">>)>>

\* Concurrent workers on the counters.
ScRace ==
    Scenario({"direct"}, {2}, {<<"a">>}, MaxFailures, 0, 0, MaxPages,
             {BareHtml})
\* One page that keeps failing, and a stop during its retries.
ScRetry ==
    Scenario({"direct"}, {0, 25}, {<<"a">>}, max_retries + 2, 1, 0, 1,
             {BareHtml})
\* Stops and restarts at any moment of a run, with one worker.
ScCancel ==
    Scenario({"direct", "run_search"}, {1}, {<<"a">>}, 0, MaxToggles, 0,
             MaxPages, {ListHtml(OneFont), RaisingHtml})
\* The same with two workers side by side, over two pages.
ScCancelPool ==
    Scenario({"direct", "run_search"}, {2}, {<<"a">>}, 0, MaxToggles, 0,
             2, {ListHtml(OneFont), RaisingHtml})
\* Every kind of page and keyword.
ScFilter ==
    Scenario({"direct", "run_search"}, {1}, Keywords, 0, 0, 0, MaxPages,
             TaskBodies)
\* get_stats during a run.
ScStats ==
    Scenario({"direct"}, {1}, {<<"a">>}, 0, 0, MaxSnapshots, 1, {BareHtml})

\* A search driven from the front-end whose items check_queue takes off the
\* queue, and the search started after it.
ScQueue ==
    Scenario({"run_search"}, {1}, {<<"a">>}, 0, MaxToggles, 0, 1, {BareHtml})

Scenarios ==
    {ScRace, ScRetry, ScCancel, ScCancelPool, ScFilter, ScStats, ScQueue}

\* The scenarios in which the steps of check_queue are followed.
QueueScenarios == {ScQueue}

\* FontSniffer.should_stop as run_search installs it: lambda: not is_searching
should_stop == ~ is_searching

Event(type, kind, page, done, total, found, rec, st) ==
    [type |-> type, kind |-> kind, page |-> page, completed |-> done,
     total |-> total, found |-> found, rec |-> rec, stats |-> st]

NoRec == <<>>
NoStats == <<>>
StatusDetecting == Event("status", "detecting", 0, 0, 0, 0, NoRec, NoStats)
StatusTotal(n) == Event("status", "total", 0, 0, n, 0, NoRec, NoStats)
StatusLaunch(n) == Event("status", "launch", 0, 0, n, 0, NoRec, NoStats)
StatusProgress(page, done, total, found) ==
    Event("status", "progress", page, done, total, found, NoRec, NoStats)
StatusException(page) == Event("status", "exception", page, 0, 0, 0, NoRec, NoStats)
StatusAbort == Event("status", "abort", 0, 0, 0, 0, NoRec, NoStats)
StatusSummary(found, st) == Event("status", "summary", 0, 0, 0, found, NoRec, st)
\* page is not part of the text of a result item; it is kept for the properties.
Result(page, rec) == Event("result", "result", page, 0, 0, 0, rec, NoStats)
Done == Event("done", "done", 0, 0, 0, 0, NoRec, NoStats)

\* line 545: item["type"] == "done"
IsDoneItem(item) == item.type = "done"

NoResult == [raised |-> FALSE, fonts |-> <<>>]

InitThread ==
    [pc |-> "idle", retry_count |-> 0, tmp |-> 0, html |-> NoHtml,
     result |-> NoResult]

InitCall == [attempts |-> 0, failures |-> 0, successes |-> 0, retries |-> 0,
             returns |-> 0, empty |-> FALSE]

InitGen ==
    [pc |-> "init", total_pages |-> 0, completed_pages |-> 0, total_found |-> 0,
     page |-> 0, fonts |-> <<>>]

InitHist ==
    [req |-> ZeroStats,            \* the increments the code has executed
     engine |-> ZeroStats,         \* the values the engine last wrote
     snap |-> <<>>,                \* per get_stats call: what it returned, as
                                   \* the caller has changed it since, and
                                   \* the number of counter writes before it
     failures |-> 0,               \* the transport failures so far
     call |-> [f \in Fetchers |-> InitCall],
     must_fall_back |-> FALSE,     \* the discovery met a case for the fallback
     expected |-> [p \in Tasks |-> <<>>],  \* per page fetched, its
                                   \* records that match the keyword
     ever_stopped |-> FALSE,       \* should_stop() has been true during the run
     stop_at_call |-> FALSE,       \* it was true when search() was called
     resumed |-> FALSE,            \* it went back to false after being true
     stop_mark |-> 0,              \* Len(out) when it last became true
     inproc |-> 0,                 \* the completion whose progress event was
                                   \* due at that time
     inpage |-> 0,                 \* the completion whose events were being
                                   \* yielded at that time
     stop_pc |-> "init",           \* the generator's position at that time
     emitted_results |-> 0,
     launched |-> FALSE,           \* the page tasks have been submitted
     taken |-> [p \in Tasks |-> 0]]  \* per page task, the times a worker
                                   \* has started it

\* gui_model.py 41: __init__ calls check_queue, which schedules itself
InitGui == [polling |-> TRUE, taken |-> 0, searches |-> 1]

Init ==
    /\ env \in Scenarios
    /\ caller \in env.callers
    /\ max_workers \in {ClampWorkers(n) : n \in env.workers}
    /\ keyword \in env.keywords
    \* start_search refuses an empty keyword (gui_model.py 425-428)
    /\ caller = "run_search" => keyword # <<>>
    /\ is_searching = TRUE
    /\ toggles = 0
    /\ heap = [o \in 0..MaxSnapshots |-> ZeroStats]
    /\ held = <<>>
    /\ th = [f \in Fetchers |-> InitThread]
    /\ gen = InitGen
    /\ drained = {}
    /\ out = <<>>
    /\ result_queue = <<>>
    /\ hist = InitHist
    /\ gui = InitGui

(***************************************************************************)
(* The collaborator changes the value of the stop predicate.               *)
(***************************************************************************)
RunOver == gen.pc = "exited"

\* Whether the drain loop has passed its stop check for a completion and has
\* not yet yielded that completion's progress event.
Processing == IF gen.pc = "progress" THEN gen.page ELSE 0
Yielding == IF gen.pc \in {"progress", "results", "exception"} THEN gen.page ELSE 0

\* stop_search: is_searching = False
StopSearch ==
    /\ ~ RunOver
    /\ is_searching
    /\ toggles < env.toggles
    /\ is_searching' = FALSE
    /\ toggles' = toggles + 1
    /\ hist' = [hist EXCEPT !.ever_stopped = TRUE, !.stop_mark = Len(out),
                            !.inproc = Processing, !.inpage = Yielding,
                            !.stop_pc = gen.pc]
    /\ UNCHANGED <<gui, env, caller, max_workers, keyword, heap, held, th, gen, drained,
                   out, result_queue>>

\* start_search, pressed again after a stop: is_searching = True
StartAgain ==
    /\ ~ RunOver
    /\ ~ is_searching
    /\ toggles < env.toggles
    /\ is_searching' = TRUE
    /\ toggles' = toggles + 1
    /\ hist' = [hist EXCEPT !.resumed = TRUE]
    /\ UNCHANGED <<gui, env, caller, max_workers, keyword, heap, held, th, gen, drained,
                   out, result_queue>>

(***************************************************************************)
(* What the pages hold, stated apart from the code that reads them.        *)
(***************************************************************************)
\* The page-1 fetch returned the empty value, or parsing raises, or the
\* pager is absent, or it has no page link.
MustFallBack(html) ==
    \/ html = NoHtml
    \/ html.raises
    \/ ~ html.pager
    \/ \A i \in 1..Len(html.links) : ~ html.links[i].matches

\* The records of a page whose name matches keyword kw, in document order,
\* each with its absolute URL.
ExpectedRecords(html, kw) ==
    IF html = NoHtml \/ html.raises \/ ~ html.section \/ ~ html.ul THEN <<>>
    ELSE LET wanted(li) ==
                 /\ li.anchor /\ li.font
                 /\ (kw = <<>> \/ Contains(Lower(Strip(li.text)), Lower(kw)))
             kept == SelectSeq(html.items, wanted)
         IN  [i \in 1..Len(kept) |->
                 [name |-> Strip(kept[i].text),
                  url |-> <<SITE_ORIGIN, kept[i].path>>]]

(***************************************************************************)
(* FontSniffer._fetch_page, one step per access to shared state.  The      *)
(* statement  self.stats[k] += 1  is a read of the dict entry followed by  *)
(* a write of the value read plus one; no lock is held between the two.    *)
(***************************************************************************)
\* The value read is stored back unchanged.
IncrementLost(k, v) == [heap EXCEPT ![STATS][k] = v]

\* self.stats[k] = v + 1, the second half of  self.stats[k] += 1
Incremented(k, v) == [heap EXCEPT ![STATS][k] = v + 1]

\* The history after the engine has written v + 1 to counter k.
Bump(h, k, v) == [h EXCEPT !.req[k] = @ + 1, !.engine[k] = v + 1]

\* _fetch_page returns html to its caller: the discovery keeps it, a page
\* task goes on to parse and filter it and completes its future.
Return(f, html) ==
    IF f = 0
    THEN [InitThread EXCEPT !.pc = "done", !.html = html]
    ELSE [InitThread EXCEPT !.pc = "done",
                            !.result = ParseAndFilterPage(html, keyword)]

Returned(h, f, html) ==
    [h EXCEPT !.call[f].returns = @ + 1,
              !.call[f].empty = (html = NoHtml),
              !.must_fall_back = IF f = 0 THEN MustFallBack(html) ELSE @,
              !.expected = IF f = 0 THEN @
                           ELSE [@ EXCEPT ![f] = ExpectedRecords(html, keyword)]]

\* An attempt that starts without looking at the stop predicate.
FetchCheckSkipped(f) ==
    /\ th[f].pc = "check"
    /\ th' = [th EXCEPT ![f].pc = "total_rd"]
    /\ UNCHANGED <<gui, env, caller, max_workers, keyword, is_searching, toggles, heap,
                   held, gen, drained, out, result_queue, hist>>

\* line 97-98: if self.should_stop(): return None
FetchCheck(f) ==
    /\ th[f].pc = "check"
    /\ IF should_stop
       THEN /\ th' = [th EXCEPT ![f] = Return(f, NoHtml)]
            /\ hist' = Returned(hist, f, NoHtml)
       ELSE /\ th' = [th EXCEPT ![f].pc = "total_rd"]
            /\ hist' = hist
    /\ UNCHANGED <<gui, env, caller, max_workers, keyword, is_searching, toggles, heap,
                   held, gen, drained, out, result_queue>>

\* line 101, the read of self.stats["total_requests"]
FetchTotalRead(f) ==
    /\ th[f].pc = "total_rd"
    /\ th' = [th EXCEPT ![f].pc = "total_wr", ![f].tmp = stats.total_requests]
    /\ UNCHANGED <<gui, env, caller, max_workers, keyword, is_searching, toggles, heap,
                   held, gen, drained, out, result_queue, hist>>

\* line 101, the write; the GET of line 104 is then in flight
FetchTotalWrite(f) ==
    /\ th[f].pc = "total_wr"
    /\ heap' = Incremented("total_requests", th[f].tmp)
    /\ th' = [th EXCEPT ![f].pc = "get", ![f].tmp = 0]
    /\ hist' = [Bump(hist, "total_requests", th[f].tmp)
                   EXCEPT !.call[f].attempts = @ + 1]
    /\ UNCHANGED <<gui, env, caller, max_workers, keyword, is_searching, toggles, held,
                   gen, drained, out, result_queue>>

Bodies(f) == IF f = 0 THEN env.pagers ELSE env.bodies

\* lines 104-108: the response arrives with a body, and
\* self.stats["successful_requests"] is read
FetchGetOk(f) ==
    /\ th[f].pc = "get"
    /\ \E body \in Bodies(f) :
          th' = [th EXCEPT ![f].pc = "succ_wr", ![f].html = body,
                           ![f].tmp = stats.successful_requests]
    /\ UNCHANGED <<gui, env, caller, max_workers, keyword, is_searching, toggles, heap,
                   held, gen, drained, out, result_queue, hist>>

\* lines 104-105, 110-111: the GET raises a RequestException, and
\* self.stats["failed_requests"] is read
FetchGetFail(f) ==
    /\ th[f].pc = "get"
    /\ hist.failures < env.failures
    /\ th' = [th EXCEPT ![f].pc = "fail_wr", ![f].tmp = stats.failed_requests]
    /\ hist' = [hist EXCEPT !.failures = @ + 1]
    /\ UNCHANGED <<gui, env, caller, max_workers, keyword, is_searching, toggles, heap,
                   held, gen, drained, out, result_queue>>

\* lines 108-109: the write of successful_requests, return response.text
FetchSuccWrite(f) ==
    /\ th[f].pc = "succ_wr"
    /\ heap' = Incremented("successful_requests", th[f].tmp)
    /\ th' = [th EXCEPT ![f] = Return(f, th[f].html)]
    /\ hist' = [Returned(Bump(hist, "successful_requests", th[f].tmp), f,
                         th[f].html)
                   EXCEPT !.call[f].successes = @ + 1]
    /\ UNCHANGED <<gui, env, caller, max_workers, keyword, is_searching, toggles, held,
                   gen, drained, out, result_queue>>

\* line 111: the write of failed_requests
FetchFailWrite(f) ==
    /\ th[f].pc = "fail_wr"
    /\ heap' = Incremented("failed_requests", th[f].tmp)
    /\ th' = [th EXCEPT ![f].pc = "retry_check", ![f].tmp = 0]
    /\ hist' = [Bump(hist, "failed_requests", th[f].tmp)
                   EXCEPT !.call[f].failures = @ + 1]
    /\ UNCHANGED <<gui, env, caller, max_workers, keyword, is_searching, toggles, held,
                   gen, drained, out, result_queue>>

\* The retry test without the stop predicate.
MayRetryWhileStopped(retry_count) == retry_count < max_retries

\* A retry whatever the number of attempts made.
MayRetryUnbounded(retry_count) == ~ should_stop

\* The comparison off by one.
MayRetryOnceMore(retry_count) == retry_count <= max_retries /\ ~ should_stop

\* line 113: retry_count < self.max_retries and not self.should_stop()
MayRetry(retry_count) == retry_count < max_retries /\ ~ should_stop

\* lines 113, 124-125
FetchRetryCheck(f) ==
    /\ th[f].pc = "retry_check"
    /\ IF MayRetry(th[f].retry_count)
       THEN /\ th' = [th EXCEPT ![f].pc = "retr_rd"]
            /\ hist' = hist
       ELSE /\ th' = [th EXCEPT ![f] = Return(f, NoHtml)]
            /\ hist' = Returned(hist, f, NoHtml)
    /\ UNCHANGED <<gui, env, caller, max_workers, keyword, is_searching, toggles, heap,
                   held, gen, drained, out, result_queue>>

\* line 114, the read of self.stats["retried_requests"]
FetchRetriedRead(f) ==
    /\ th[f].pc = "retr_rd"
    /\ th' = [th EXCEPT ![f].pc = "retr_wr", ![f].tmp = stats.retried_requests]
    /\ UNCHANGED <<gui, env, caller, max_workers, keyword, is_searching, toggles, heap,
                   held, gen, drained, out, result_queue, hist>>

\* lines 114-122: the write, the backoff sleep, and the recursive call
\* _fetch_page(page, retry_count + 1)
FetchRetriedWrite(f) ==
    /\ th[f].pc = "retr_wr"
    /\ heap' = Incremented("retried_requests", th[f].tmp)
    /\ th' = [th EXCEPT ![f].pc = "check", ![f].retry_count = @ + 1,
                         ![f].tmp = 0]
    /\ hist' = [Bump(hist, "retried_requests", th[f].tmp)
                   EXCEPT !.call[f].retries = @ + 1]
    /\ UNCHANGED <<gui, env, caller, max_workers, keyword, is_searching, toggles, held,
                   gen, drained, out, result_queue>>

(***************************************************************************)
(* The thread pool: ThreadPoolExecutor(max_workers), a FIFO work queue.    *)
(***************************************************************************)
Executing == {p \in Tasks : th[p].pc \notin {"idle", "queued", "done"}}

\* A free worker takes the oldest queued task and calls
\* _parse_and_filter_page(page), which calls _fetch_page(page).
WorkerTakes(p) ==
    /\ th[p].pc = "queued"
    /\ \A q \in Tasks : q < p => th[q].pc # "queued"
    /\ Cardinality(Executing) < max_workers
    /\ th' = [th EXCEPT ![p].pc = "check"]
    /\ hist' = [hist EXCEPT !.taken[p] = @ + 1]
    /\ UNCHANGED <<gui, env, caller, max_workers, keyword, is_searching, toggles, heap,
                   held, gen, drained, out, result_queue>>

(***************************************************************************)
(* The consumer of search().  run_search (gui_model.py 504-511) drops the  *)
(* item and leaves its loop when is_searching is false, which closes the   *)
(* generator; otherwise it puts the item on result_queue.  A direct caller *)
(* takes every item.  nxt is the generator after it is resumed; in_with    *)
(* tells whether the yield is inside the with block of the executor, whose *)
(* exit waits for the submitted tasks.                                     *)
(***************************************************************************)
ConsumerBreaks == caller = "run_search" /\ ~ is_searching

Deliver(ev, nxt, in_with) ==
    /\ out' = Append(out, ev)
    /\ IF ConsumerBreaks
       THEN /\ gen' = [gen EXCEPT !.pc = IF in_with THEN "closing" ELSE "finally"]
            /\ result_queue' = result_queue
       ELSE /\ gen' = nxt
            /\ result_queue' = IF caller = "run_search"
                               THEN Append(result_queue, ev)
                               ELSE result_queue

\* The generator is exhausted: run_search goes to its finally clause, a
\* direct caller's loop ends.
Exhausted == IF caller = "run_search" THEN "finally" ELSE "exited"

(***************************************************************************)
(* FontSniffer.search                                                      *)
(***************************************************************************)
\* lines 180-184: self._keyword = keyword, the first status, and the call of
\* _detect_total_pages, which calls _fetch_page(1)
SearchBegin ==
    /\ gen.pc = "init"
    /\ Deliver(StatusDetecting, [gen EXCEPT !.pc = "detecting"], FALSE)
    /\ th' = IF ConsumerBreaks THEN th ELSE [th EXCEPT ![0].pc = "check"]
    /\ hist' = [hist EXCEPT !.stop_at_call = should_stop]
    /\ UNCHANGED <<gui, env, caller, max_workers, keyword, is_searching, toggles, heap,
                   held, drained>>

\* lines 184-185: _detect_total_pages returns, the status with the total
SearchTotal ==
    /\ gen.pc = "detecting"
    /\ th[0].pc = "done"
    /\ LET total_pages == DetectTotalPages(th[0].html)
       IN  Deliver(StatusTotal(total_pages),
                   [gen EXCEPT !.pc = "launch", !.total_pages = total_pages],
                   FALSE)
    /\ th' = [th EXCEPT ![0].html = NoHtml]
    /\ UNCHANGED <<gui, env, caller, max_workers, keyword, is_searching, toggles, heap,
                   held, drained, hist>>

\* Page tasks for the indices below the total only.
SubmittedBelowTotal(total_pages) == {p \in 1..env.follow : p < total_pages}

\* The page tasks of the run; those above MaxPages are submitted but their
\* execution is not followed.
Submitted(total_pages) == {p \in 1..env.follow : p <= total_pages}

\* lines 188-199: the status with the worker count, then one submit per page
SearchLaunch ==
    /\ gen.pc = "launch"
    /\ Deliver(StatusLaunch(max_workers), [gen EXCEPT !.pc = "drain"], FALSE)
    /\ th' = IF ConsumerBreaks THEN th
             ELSE [f \in Fetchers |->
                     IF f \in Submitted(gen.total_pages)
                     THEN [th[f] EXCEPT !.pc = "queued"] ELSE th[f]]
    /\ hist' = [hist EXCEPT !.launched = ~ ConsumerBreaks]
    /\ UNCHANGED <<gui, env, caller, max_workers, keyword, is_searching, toggles, heap,
                   held, drained>>

Completed(p) == p \in Tasks /\ th[p].pc = "done"

\* Every submitted task has run to its end.
AllTasksDone ==
    /\ gen.total_pages <= env.follow
    /\ \A p \in Submitted(gen.total_pages) : Completed(p)

\* A drain loop without its stop check.
DrainNeverStops == FALSE

\* line 203: the stop check made before a completion is processed
DrainStops == should_stop

\* lines 202-211: as_completed hands over a finished future; the stop check;
\* future.result() returns or raises
DrainNext(p) ==
    /\ gen.pc = "drain"
    /\ p \in Submitted(gen.total_pages) \ drained
    /\ Completed(p)
    /\ drained' = drained \cup {p}
    /\ gen' = IF DrainStops THEN [gen EXCEPT !.pc = "abort"]
              ELSE IF th[p].result.raised
              THEN [gen EXCEPT !.pc = "exception", !.page = p]
              ELSE [gen EXCEPT !.pc = "progress", !.page = p,
                               !.completed_pages = @ + 1]
    /\ UNCHANGED <<gui, env, caller, max_workers, keyword, is_searching, toggles, heap,
                   held, th, out, result_queue, hist>>

\* lines 204-206: executor.shutdown(wait=False), the abort status, break
SearchAbort ==
    /\ gen.pc = "abort"
    /\ Deliver(StatusAbort, [gen EXCEPT !.pc = "with_exit"], TRUE)
    /\ UNCHANGED <<gui, env, caller, max_workers, keyword, is_searching, toggles, heap,
                   held, th, drained, hist>>

\* Only the first font of a page is kept.
MatchedFontsFirstOnly(p) ==
    IF th[p].result.fonts = <<>> THEN <<>> ELSE <<Head(th[p].result.fonts)>>

\* line 210: _, matched_fonts = future.result()
MatchedFonts(p) == th[p].result.fonts

\* lines 214-223: the progress status, then total_found += len(matched_fonts)
SearchProgress ==
    /\ gen.pc = "progress"
    /\ LET matched_fonts == MatchedFonts(gen.page)
       IN  Deliver(StatusProgress(gen.page, gen.completed_pages,
                                  gen.total_pages, gen.total_found),
                   IF matched_fonts # <<>>
                   THEN [gen EXCEPT !.pc = "results", !.fonts = matched_fonts,
                                    !.total_found = @ + Len(matched_fonts)]
                   ELSE [gen EXCEPT !.pc = "drain"],
                   TRUE)
    /\ UNCHANGED <<gui, env, caller, max_workers, keyword, is_searching, toggles, heap,
                   held, th, drained, hist>>

\* lines 224-228: one result item per matched font
SearchResult ==
    /\ gen.pc = "results"
    /\ Deliver(Result(gen.page, Head(gen.fonts)),
               [gen EXCEPT !.fonts = Tail(@),
                           !.pc = IF Len(gen.fonts) = 1 THEN "drain" ELSE "results"],
               TRUE)
    /\ hist' = [hist EXCEPT !.emitted_results = @ + 1]
    /\ UNCHANGED <<gui, env, caller, max_workers, keyword, is_searching, toggles, heap,
                   held, th, drained>>

\* The exception of a page task ends the drain loop.
SearchExceptionEndsLoop ==
    /\ gen.pc = "exception"
    /\ Deliver(StatusException(gen.page), [gen EXCEPT !.pc = "with_exit"], TRUE)
    /\ UNCHANGED <<gui, env, caller, max_workers, keyword, is_searching, toggles, heap,
                   held, th, drained, hist>>

\* lines 229-231: the status describing the exception of a page task
SearchException ==
    /\ gen.pc = "exception"
    /\ Deliver(StatusException(gen.page), [gen EXCEPT !.pc = "drain"], TRUE)
    /\ UNCHANGED <<gui, env, caller, max_workers, keyword, is_searching, toggles, heap,
                   held, th, drained, hist>>

\* A loop that ends after its first completion.
AsCompletedEndsEarly ==
    /\ gen.total_pages <= env.follow
    /\ drained # {}

\* as_completed has no future left to hand over.
AsCompletedExhausted ==
    /\ gen.total_pages <= env.follow
    /\ drained = Submitted(gen.total_pages)

\* line 202, the loop ends: every future has been handed over; the with
\* block is left (no task is left to wait for)
DrainEnd ==
    /\ gen.pc = "drain"
    /\ AsCompletedExhausted
    /\ gen' = [gen EXCEPT !.pc = "final"]
    /\ UNCHANGED <<gui, env, caller, max_workers, keyword, is_searching, toggles, heap,
                   held, th, drained, out, result_queue, hist>>

\* line 194, the exit of the with block after break or after the generator
\* was closed: executor.shutdown(wait=True) returns once every submitted
\* task has run
WithExit ==
    /\ gen.pc \in {"with_exit", "closing"}
    /\ AllTasksDone
    /\ gen' = [gen EXCEPT !.pc = IF gen.pc = "closing" THEN "finally" ELSE "final"]
    /\ UNCHANGED <<gui, env, caller, max_workers, keyword, is_searching, toggles, heap,
                   held, th, drained, out, result_queue, hist>>

\* The summary is due whatever the stop predicate says.
SearchFinalUnchecked ==
    /\ gen.pc = "final"
    /\ gen' = [gen EXCEPT !.pc = "summary"]
    /\ UNCHANGED <<gui, env, caller, max_workers, keyword, is_searching, toggles, heap,
                   held, th, drained, out, result_queue, hist>>

\* line 234: if not self.should_stop()
SearchFinal ==
    /\ gen.pc = "final"
    /\ gen' = [gen EXCEPT !.pc = IF should_stop THEN Exhausted ELSE "summary"]
    /\ UNCHANGED <<gui, env, caller, max_workers, keyword, is_searching, toggles, heap,
                   held, th, drained, out, result_queue, hist>>

\* lines 235-245: the final summary with the counters
SearchSummary ==
    /\ gen.pc = "summary"
    /\ Deliver(StatusSummary(gen.total_found, stats),
               [gen EXCEPT !.pc = Exhausted], FALSE)
    /\ UNCHANGED <<gui, env, caller, max_workers, keyword, is_searching, toggles, heap,
                   held, th, drained, hist>>

\* gui_model.py 510-511: finally: self.result_queue.put({"type": "done"})
RunSearchFinally ==
    /\ gen.pc = "finally"
    /\ result_queue' = Append(result_queue, Done)
    /\ gen' = [gen EXCEPT !.pc = "exited"]
    /\ UNCHANGED <<gui, env, caller, max_workers, keyword, is_searching, toggles, heap,
                   held, th, drained, out, hist>>

(***************************************************************************)
(* The front-end's consumer, check_queue (gui_model.py 513-565), run by    *)
(* the event loop every 50 ms while it is scheduled.  A call that finds    *)
(* the queue empty changes nothing and schedules the next one.             *)
(***************************************************************************)
\* The call takes one item.  For a done item it calls reset_ui, which sets
\* is_searching = False (line 489), and returns without scheduling the next
\* call (line 559); for any other item it schedules the next call (565).
CheckQueue ==
    /\ env \in QueueScenarios
    /\ gui.polling
    /\ gui.taken < Len(result_queue)
    /\ IF IsDoneItem(result_queue[gui.taken + 1])
       THEN /\ gui' = [gui EXCEPT !.taken = @ + 1, !.polling = FALSE]
            /\ is_searching' = FALSE
            /\ hist' = [hist EXCEPT !.stop_mark = Len(out),
                                    !.inproc = Processing, !.inpage = Yielding,
                                    !.stop_pc = gen.pc]
       ELSE /\ gui' = [gui EXCEPT !.taken = @ + 1]
            /\ UNCHANGED <<is_searching, hist>>
    /\ UNCHANGED <<env, caller, max_workers, keyword, toggles, heap, held, th,
                   gen, drained, out, result_queue>>

\* start_search (gui_model.py 430-459) once the earlier search is over and
\* its items have been taken: is_searching = True, a new FontSniffer with its
\* own counters, a new thread running run_search.  The queue is empty, and
\* result_queue records the items put from here on.
StartSearch ==
    /\ env \in QueueScenarios
    /\ RunOver
    /\ ~ is_searching
    /\ gui.taken = Len(result_queue)
    /\ gui.searches < MaxSearches
    /\ is_searching' = TRUE
    /\ toggles' = 0
    /\ heap' = [o \in 0..MaxSnapshots |-> ZeroStats]
    /\ held' = <<>>
    /\ th' = [f \in Fetchers |-> InitThread]
    /\ gen' = InitGen
    /\ drained' = {}
    /\ out' = <<>>
    /\ result_queue' = <<>>
    /\ hist' = InitHist
    /\ gui' = [gui EXCEPT !.taken = 0, !.searches = @ + 1]
    /\ UNCHANGED <<env, caller, max_workers, keyword>>

(***************************************************************************)
(* FontSniffer.get_stats: return self.stats.copy().  The result is the     *)
(* heap after the call and the reference returned; n is the number of      *)
(* dicts returned before.                                                  *)
(***************************************************************************)
\* return self.stats, the dict itself
get_stats_live(h, n) == [heap |-> h, ref |-> STATS]

get_stats(h, n) ==
    [heap |-> [h EXCEPT ![n + 1] = h[STATS]], ref |-> n + 1]

Keys == {"total_requests", "successful_requests", "failed_requests",
         "retried_requests"}

\* The number of counter writes a history holds.
Writes(req) ==
    req.total_requests + req.successful_requests + req.failed_requests
    + req.retried_requests

\* A caller asks for the counters.
GetStats ==
    /\ ~ RunOver
    /\ Len(held) < env.snapshots
    /\ LET r == get_stats(heap, Len(held))
       IN  /\ heap' = r.heap
           /\ held' = Append(held, r.ref)
    /\ hist' = [hist EXCEPT !.snap = Append(@, [val |-> stats,
                                                 writes |-> Writes(hist.req)])]
    /\ UNCHANGED <<gui, env, caller, max_workers, keyword, is_searching, toggles, th,
                   gen, drained, out, result_queue>>

\* The caller overwrites an entry of a dict it was given (once per dict).
CallerWrites(i, k) ==
    /\ i \in 1..Len(held)
    /\ \A j \in Keys : hist.snap[i].val[j] # -1
    /\ heap' = [heap EXCEPT ![held[i]][k] = -1]
    /\ hist' = [hist EXCEPT !.snap[i].val[k] = -1]
    /\ UNCHANGED <<gui, env, caller, max_workers, keyword, is_searching, toggles, held,
                   th, gen, drained, out, result_queue>>

(***************************************************************************)
(* Specifications.                                                         *)
(***************************************************************************)
Fetch ==
    \E f \in Fetchers :
        \/ FetchCheck(f)
        \/ FetchTotalRead(f)
        \/ FetchTotalWrite(f)
        \/ FetchGetOk(f)
        \/ FetchGetFail(f)
        \/ FetchSuccWrite(f)
        \/ FetchFailWrite(f)
        \/ FetchRetryCheck(f)
        \/ FetchRetriedRead(f)
        \/ FetchRetriedWrite(f)

Search ==
    \/ SearchBegin
    \/ SearchTotal
    \/ SearchLaunch
    \/ \E p \in Tasks : WorkerTakes(p)
    \/ \E p \in Tasks : DrainNext(p)
    \/ SearchAbort
    \/ SearchProgress
    \/ SearchResult
    \/ SearchException
    \/ DrainEnd
    \/ WithExit
    \/ SearchFinal
    \/ SearchSummary
    \/ RunSearchFinally

Next ==
    \/ Fetch
    \/ Search
    \/ StopSearch
    \/ StartAgain
    \/ GetStats
    \/ \E i \in 1..MaxSnapshots, k \in Keys : CallerWrites(i, k)
    \/ CheckQueue
    \/ StartSearch

Spec == Init /\ [][Next]_vars

\* The runs whose end is examined: those of every scenario but the one with
\* stops and two workers, which adds no run without a stop.
FairScenarios == Scenarios \ {ScCancelPool}
FairInit == Init /\ env \in FairScenarios

\* The threads of the run are scheduled and every transport call returns
\* (the GET of line 104 has a timeout): while a step of _fetch_page, of the
\* pool or of the generator and its consumer is possible, one is taken.
\* Nothing obliges the collaborator to press stop or a caller to ask for the
\* counters.
FairSpec == FairInit /\ [][Next]_vars /\ WF_vars(Fetch \/ Search)

(***************************************************************************)
(* Properties.                                                             *)
(***************************************************************************)
Range(q) == {q[i] : i \in 1..Len(q)}
Count(q, P(_)) == Cardinality({i \in 1..Len(q) : P(q[i])})

IsDone(e) == e.type = "done"
IsResult(e) == e.type = "result"
IsProgress(e) == e.kind = "progress"
IsAbort(e) == e.kind = "abort"
IsSummary(e) == e.kind = "summary"
IsException(e) == e.kind = "exception"

\* No call of _fetch_page is under way.
NoFetchRunning == \A f \in Fetchers : th[f].pc \in {"idle", "queued", "done"}

\* The run has ended: the generator is finished or closed and the consumer
\* has left its loop.
RunEnded == gen.pc = "exited"

\* The stop predicate has been false during the whole run so far.
NeverCancelled == ~ hist.ever_stopped

\* C1: once every worker has finished, each counter equals the number of
\* times the event it counts has happened (attempts made, attempts that
\* succeeded, attempts that failed, retries scheduled), whatever the
\* interleaving of the workers.
C1_CountersExact == NoFetchRunning => stats = hist.req

\* C2: a run driven by run_search that is never cancelled puts exactly one
\* done item on the queue, as the last item, after every one of the P task
\* completions has been processed and right after the final summary.
C2_OneDoneAfterSummary ==
    (caller = "run_search" /\ NeverCancelled) =>
        /\ Count(result_queue, IsDone) <= 1
        /\ RunEnded => Count(result_queue, IsDone) = 1
        /\ Count(result_queue, IsDone) = 1 =>
              /\ Len(result_queue) >= 2
              /\ IsDone(result_queue[Len(result_queue)])
              /\ IsSummary(result_queue[Len(result_queue) - 1])
              /\ drained = 1..gen.total_pages
              /\ Count(out, IsProgress) + Count(out, IsException)
                    = gen.total_pages

C2_Witness ==
    /\ caller = "run_search" /\ NeverCancelled /\ RunEnded
    /\ gen.total_pages = 2
    /\ Count(result_queue, IsDone) = 1
    /\ Count(out, IsException) = 1

\* C3: when the stop predicate is true at the call of search() and stays
\* true, the items delivered by run_search hold no result and no done item.
C3_NoResultNoDone ==
    (caller = "run_search" /\ hist.stop_at_call /\ ~ hist.resumed) =>
        /\ Count(result_queue, IsResult) = 0
        /\ Count(result_queue, IsDone) = 0

\* C4: a call of _fetch_page whose every attempt fails, with the stop
\* predicate never true, makes max_retries + 1 attempts, returns the empty
\* value once, and executes max_retries + 1 increments of total_requests and
\* of failed_requests, max_retries of retried_requests and none of
\* successful_requests; for the discovery's call, which runs alone, the
\* counters then hold exactly these values.
AllAttemptsFailed(f) ==
    /\ hist.call[f].returns >= 1
    /\ hist.call[f].successes = 0

C4_RetryBound ==
    NeverCancelled =>
        /\ \A f \in Fetchers :
              AllAttemptsFailed(f) =>
                  /\ hist.call[f] =
                        [attempts |-> max_retries + 1,
                         failures |-> max_retries + 1,
                         successes |-> 0,
                         retries |-> max_retries,
                         returns |-> 1,
                         empty |-> TRUE]
        /\ (AllAttemptsFailed(0) /\ gen.pc = "detecting") =>
              stats = [total_requests |-> max_retries + 1,
                       successful_requests |-> 0,
                       failed_requests |-> max_retries + 1,
                       retried_requests |-> max_retries]

C4_Witness ==
    /\ NeverCancelled
    /\ AllAttemptsFailed(0) /\ gen.pc = "detecting"
    /\ stats.retried_requests = max_retries

\* Every fetch of the run succeeded on its first attempt, the run was not
\* cancelled, and it has ended with its summary.
CleanRunEnded ==
    /\ NeverCancelled
    /\ hist.failures = 0
    /\ RunEnded
    /\ Count(out, IsSummary) = 1

\* C5 as stated: at the end of such a run successful_requests equals P.
C5_SuccessfulEqualsPages ==
    CleanRunEnded => stats.successful_requests = gen.total_pages

\* C5, amended: the discovery's fetch of page 1 is counted too, so at the
\* end of such a run successful_requests is P + 1 when the pool has one
\* worker, and with any number of workers it is at least 1 and at most
\* P + 1.
C5_SuccessfulCountsDiscovery ==
    CleanRunEnded =>
        /\ max_workers = 1 => stats.successful_requests = gen.total_pages + 1
        /\ stats.successful_requests >= 1
        /\ stats.successful_requests <= gen.total_pages + 1

C5_Witness ==
    /\ CleanRunEnded
    /\ max_workers = 1
    /\ gen.total_pages = 2
    /\ stats.successful_requests = 3

\* The result events yielded so far, and those of page p.
Results == SelectSeq(out, IsResult)
ResultsOf(p) == SelectSeq(out, LAMBDA e : IsResult(e) /\ e.page = p)
RecordsOf(q) == [i \in 1..Len(q) |-> q[i].rec]

CountIn(q, x) == Cardinality({i \in 1..Len(q) : q[i] = x})

RECURSIVE ExpectedCount(_, _)
ExpectedCount(x, p) ==
    IF p = 0 THEN 0 ELSE CountIn(hist.expected[p], x) + ExpectedCount(x, p - 1)

AllRecordsSeen ==
    Range(RecordsOf(Results))
    \cup UNION {Range(hist.expected[p]) : p \in Tasks}

\* The run went through without a stop and has yielded its summary.
SummaryYielded == NeverCancelled /\ Count(out, IsSummary) = 1

\* C6: at the end of a run that is not cancelled, the multiset of result
\* events equals the multiset of the records, over the pages fetched with
\* success, whose name matches the keyword, whatever the order in which the
\* tasks completed; and the total in the summary is the number of result
\* events.
C6_ResultsAreTheMatchingRecords ==
    SummaryYielded =>
        /\ \A x \in AllRecordsSeen :
              CountIn(RecordsOf(Results), x) = ExpectedCount(x, MaxPages)
        /\ \A i \in 1..Len(out) :
              IsSummary(out[i]) => out[i].found = Len(Results)

\* Two pages with matches, the higher page reported first.
C6_Witness ==
    /\ SummaryYielded
    /\ Len(Results) >= 3
    /\ Results[1].page = 2
    /\ Results[Len(Results)].page = 1

\* C7: every result event carries a record whose lowercased name contains
\* the lowercased keyword; with an empty keyword, every record extracted
\* from a page is emitted for it.
C7_ResultsMatchKeyword ==
    /\ \A i \in 1..Len(out) :
          IsResult(out[i]) =>
              Contains(Lower(out[i].rec.name), Lower(keyword))
    /\ (keyword = <<>> /\ NeverCancelled) =>
          \A p \in Tasks :
              (/\ \E i \in 1..Len(out) : IsProgress(out[i]) /\ out[i].page = p
               /\ (gen.page # p \/ gen.pc # "results"))
              => RecordsOf(ResultsOf(p)) = hist.expected[p]

\* A name that matches only when case is ignored, stripped of its blanks.
C7_Witness ==
    /\ keyword = <<"A", "B">>
    /\ \E i \in 1..Len(out) :
          IsResult(out[i]) /\ out[i].rec.name = <<"a", "B">>

\* C8: get_stats returns a copy.  A dict it returned holds what the counters
\* were at the call plus what the caller wrote to it since, whatever the
\* engine has written meanwhile; the engine's counters hold what the engine
\* last wrote, whatever callers wrote to the dicts they were given; and two
\* dicts returned with no counter write between the calls, neither changed
\* by the caller, are equal.
Untouched(i) == \A k \in Keys : hist.snap[i].val[k] # -1

C8_GetStatsReturnsCopy ==
    /\ \A i \in 1..Len(held) : heap[held[i]] = hist.snap[i].val
    /\ heap[STATS] = hist.engine
    /\ \A i, j \in 1..Len(held) :
          (/\ hist.snap[i].writes = hist.snap[j].writes
           /\ Untouched(i) /\ Untouched(j))
          => heap[held[i]] = heap[held[j]]

\* A dict returned before an increment and changed by the caller, a second
\* one returned after the increment.
C8_Witness ==
    /\ Len(held) = 2
    /\ ~ Untouched(1)
    /\ hist.snap[1].writes < hist.snap[2].writes
    /\ stats.successful_requests > hist.snap[2].val.successful_requests

\* C9: _detect_total_pages returns a positive integer, and returns the
\* fallback 383 when the page-1 fetch returned the empty value, the pager is
\* absent, the pager has no page link, or parsing raises.
IsTotal(e) == e.kind = "total"

C9_TotalPositiveOrFallback ==
    \A i \in 1..Len(out) :
        IsTotal(out[i]) =>
            /\ out[i].total > 0
            /\ hist.must_fall_back => out[i].total = FALLBACK_PAGES

\* C10: while the stop predicate is true, having become true when
\* Len(out) = stop_mark, the events yielded since hold no progress event
\* except that of the completion whose stop check had passed before (at
\* most one), progress, result and exception events only of the completion
\* being reported at that time, at most one abort event with nothing after
\* it, and no summary unless the check of line 234 had passed before.
SinceStop == SubSeq(out, hist.stop_mark + 1, Len(out))

C10_NoProgressAfterStop ==
    ~ is_searching =>
        LET suf == SinceStop
        IN  /\ Count(suf, IsProgress) <= 1
            /\ \A i \in 1..Len(suf) :
                  /\ IsProgress(suf[i]) =>
                        (hist.inproc # 0 /\ suf[i].page = hist.inproc)
                  /\ (IsResult(suf[i]) \/ IsException(suf[i])) =>
                        (hist.inpage # 0 /\ suf[i].page = hist.inpage)
                  /\ IsSummary(suf[i]) => hist.stop_pc = "summary"
                  /\ IsAbort(suf[i]) => i = Len(suf)

\* The stop came while a completion was being processed: its progress and
\* result are still yielded, then the abort.
C10_Witness ==
    /\ ~ is_searching
    /\ Len(SinceStop) = 3
    /\ IsProgress(SinceStop[1])
    /\ IsResult(SinceStop[2])
    /\ IsAbort(SinceStop[3])

HasProgress(q, p) == \E i \in 1..Len(q) : IsProgress(q[i]) /\ q[i].page = p
HasException(q, p) == \E i \in 1..Len(q) : IsException(q[i]) /\ q[i].page = p

\* C11: when the drain loop has observed the stop and the stream has ended,
\* every task that as_completed had handed over as finished (so it had
\* completed) has had its progress reported (or, if it raised, its exception).
C11_CompletedProgressFlushed ==
    (RunEnded /\ Count(out, IsAbort) >= 1) =>
        \A p \in drained : HasProgress(out, p) \/ HasException(out, p)

\* Worker counts a caller may ask for, below, inside and above the range.
WorkerRequests == {-3, 0, 1, 2, 8, 20, 21, 25}

\* C12: whatever worker count is requested, the engine's max_workers is in
\* 1..20, and at no moment of a run do more page tasks execute than
\* max_workers.
C12_ConcurrencyBounded ==
    /\ \A n \in WorkerRequests :
          ClampWorkers(n) >= MIN_WORKERS /\ ClampWorkers(n) <= MAX_WORKERS
    /\ max_workers >= 1 /\ max_workers <= 20
    /\ Cardinality(Executing) <= max_workers

\* The pool is full and a submitted task waits for a worker.
C12_Witness ==
    /\ Cardinality(Executing) = max_workers
    /\ \E p \in Tasks : th[p].pc = "queued"

\* range(1, total_pages + 1), the indices line 198 iterates over.
PageRange(total_pages) == [i \in 1..total_pages |-> i]

\* The page a fetcher asks for: the discovery asks for page 1.
PageOf(f) == IF f = 0 THEN 1 ELSE f
InFlight(f) == th[f].pc \notin {"idle", "queued", "done"}

\* The tasks have just been submitted: none has been started.
JustLaunched ==
    /\ hist.launched
    /\ gen.pc = "drain"
    /\ \A p \in Tasks : th[p].pc \in {"idle", "queued"}

\* C13: when the tasks are submitted there is one task per index of 1..P, no
\* index twice (of these the model holds the tasks up to its bound); a task
\* is started by a worker at most once, and exactly once when it has
\* finished or the run has ended; and two fetches of one page index are never
\* in flight together, the discovery's fetch of page 1 included.
C13_OneTaskPerPage ==
    /\ JustLaunched =>
          LET pages == PageRange(gen.total_pages)
          IN  /\ Len(pages) = gen.total_pages
              /\ Cardinality(Range(pages)) = Len(pages)
              /\ \A i \in 1..gen.total_pages : pages[i] = i
    /\ hist.launched =>
          LET pages == PageRange(gen.total_pages)
          IN  {p \in Tasks : th[p].pc # "idle"}
                 = {pages[i] : i \in {j \in 1..env.follow : j <= gen.total_pages}}
    /\ ~ hist.launched => \A p \in Tasks : th[p].pc = "idle"
    /\ \A p \in Tasks :
          /\ hist.taken[p] <= 1
          /\ th[p].pc \notin {"idle", "queued"} => hist.taken[p] = 1
          /\ (hist.launched /\ RunEnded /\ p <= gen.total_pages) =>
                hist.taken[p] = 1
    /\ \A f, g \in Fetchers :
          (f # g /\ PageOf(f) = PageOf(g)) => ~ (InFlight(f) /\ InFlight(g))

\* Two pages, both tasks run side by side, each started once; page 1 had been
\* fetched by the discovery before.
C13_Witness ==
    /\ hist.launched
    /\ gen.total_pages = 2
    /\ InFlight(1) /\ InFlight(2)
    /\ hist.call[0].successes = 1
    /\ hist.taken = [p \in Tasks |-> IF p <= 2 THEN 1 ELSE 0]

\* The stop predicate is true, and the drain loop has yielded its abort since
\* it last became true.
AbortedAndStillStopped ==
    /\ ~ is_searching
    /\ \E i \in 1..Len(SinceStop) : IsAbort(SinceStop[i])

\* C14: when the drain loop has seen the stop predicate true and it has
\* stayed true since, there is exactly one abort event, it is the last event
\* of the stream (no progress, result or other event after it), and no
\* summary is emitted.
C14_AbortIsLast ==
    AbortedAndStillStopped =>
        /\ Count(out, IsAbort) = 1
        /\ IsAbort(out[Len(out)])
        /\ Count(out, IsSummary) = 0

\* A drain that reported one page with its result before it was aborted, the
\* run over.
C14_Witness ==
    /\ AbortedAndStillStopped
    /\ RunEnded
    /\ caller = "direct"
    /\ Count(out, IsProgress) = 1
    /\ Count(out, IsResult) = 1

\* C15: once the abort status is out, the generator can leave the with block
\* of the executor, and so close the stream, whether or not page tasks are
\* still executing or waiting in the pool.
C15_CloseDoesNotWaitForTasks ==
    gen.pc = "with_exit" => ENABLED WithExit

CountException(q, p) ==
    Cardinality({i \in 1..Len(q) : IsException(q[i]) /\ q[i].page = p})
Raised(p) == th[p].result.raised
\* The drain loop is done with the completion of p.
Reported(p) == p \in drained /\ ~ (gen.page = p /\ gen.pc = "exception")

\* A page task that raised gets exactly one exception status, no result and
\* no progress event, and is not counted in completed_pages; a run never
\* cancelled that has yielded its summary has reported every submitted task.
ExceptionReportedAndSkipped ==
    /\ \A p \in Tasks :
          /\ HasException(out, p) => Raised(p)
          /\ Raised(p) =>
                /\ CountException(out, p) <= 1
                /\ ResultsOf(p) = <<>>
                /\ ~ HasProgress(out, p)
                /\ (NeverCancelled /\ Reported(p)) => CountException(out, p) = 1
    /\ NeverCancelled =>
          gen.completed_pages = Cardinality({p \in drained : ~ Raised(p)})
    /\ SummaryYielded =>
          /\ drained = 1..gen.total_pages
          /\ \A p \in drained : HasProgress(out, p) \/ HasException(out, p)

\* The model follows the run to its end: the total is not the fallback.
Followed == gen.total_pages <= env.follow

\* C16: a page task that raised gets exactly one exception status, no result
\* and no progress event, and is not counted as completed; the drain loop
\* goes on with every remaining completion; and once an exception status is
\* out, a run that is not cancelled still reaches its final summary.
C16_TaskExceptionIsReported ==
    /\ []ExceptionReportedAndSkipped
    /\ (\E p \in Tasks : HasException(out, p))
          ~> (\/ ~ NeverCancelled
              \/ ~ Followed
              \/ Count(out, IsSummary) = 1)

\* Page 1 raised and was reported first; page 2 was then reported with a
\* result, and the summary followed.
C16_Witness ==
    /\ SummaryYielded
    /\ gen.total_pages = 2
    /\ HasException(out, 1)
    /\ \E i, j \in 1..Len(out) :
          /\ i < j
          /\ IsException(out[i])
          /\ IsResult(out[j]) /\ out[j].page = 2

\* C19: absent cancellation, no call of _fetch_page makes more than
\* max_retries + 1 attempts, and the run eventually yields its summary and
\* ends, whatever the worker count, page count and transport failures.
C19_RunTerminates ==
    /\ [](NeverCancelled =>
            \A f \in Fetchers : hist.call[f].attempts <= max_retries + 1)
    /\ <>(\/ ~ NeverCancelled
          \/ ~ Followed
          \/ RunEnded /\ Count(out, IsSummary) = 1)

\* A run that ended with its summary although its page task used up its
\* attempts.
C19_Witness ==
    /\ NeverCancelled /\ RunEnded
    /\ Count(out, IsSummary) = 1
    /\ hist.call[1].attempts = max_retries + 1
    /\ hist.call[1].successes = 0

\* Fetcher f stands at the stop check of _fetch_page and takes its step.
AtCheck(f) == th[f].pc = "check" /\ th'[f] # th[f]

\* C17: a call of _fetch_page that finds the stop predicate true at its
\* check, on first entry or on re-entry after a backoff sleep, returns the
\* empty value, issues no request and leaves the four counters as they are.
C17_StoppedFetchReturnsEmpty ==
    [][\A f \in Fetchers :
          (AtCheck(f) /\ should_stop) =>
              /\ th'[f].pc = "done"
              /\ hist'.call[f].returns = hist.call[f].returns + 1
              /\ hist'.call[f].empty
              /\ f = 0 => th'[f].html = NoHtml
              /\ f # 0 => th'[f].result = NoResult
              /\ hist'.call[f].attempts = hist.call[f].attempts
              /\ hist'.req = hist.req
              /\ stats' = stats]_vars

\* A call that returned empty at the check on re-entry after a retry was
\* scheduled: every attempt made was followed by a retry.
C17_Witness ==
    \E f \in Fetchers :
        /\ th[f].pc = "done"
        /\ hist.call[f].returns = 1
        /\ hist.call[f].empty
        /\ hist.call[f].attempts >= 1
        /\ hist.call[f].retries = hist.call[f].attempts

\* Fetcher f stands at the test of line 113, its attempt having failed, and
\* takes its step.
AtRetryCheck(f) == th[f].pc = "retry_check" /\ th'[f] # th[f]

\* C18: when an attempt has failed and the stop predicate is true at the
\* test of line 113, the failure has been counted once for this attempt, and
\* the call returns the empty value at once: retried_requests is not
\* incremented and no further attempt is made for the page.
C18_NoRetryWhenStopped ==
    /\ [](\A f \in Fetchers :
             th[f].pc = "retry_check" =>
                 /\ hist.call[f].failures = th[f].retry_count + 1
                 /\ hist.call[f].failures = hist.call[f].attempts
                 /\ hist.call[f].retries = th[f].retry_count)
    /\ [][\A f \in Fetchers :
             (AtRetryCheck(f) /\ should_stop) =>
                 /\ th'[f].pc = "done"
                 /\ hist'.call[f].returns = hist.call[f].returns + 1
                 /\ hist'.call[f].empty
                 /\ hist'.call[f].retries = hist.call[f].retries
                 /\ hist'.call[f].attempts = hist.call[f].attempts
                 /\ hist'.req = hist.req
                 /\ stats' = stats]_vars
    /\ [](\A f \in Fetchers :
             hist.call[f].returns >= 1 =>
                 /\ th[f].pc = "done"
                 /\ hist.call[f].returns = 1)

\* A first attempt failed while the stop predicate was true: one failure
\* counted, no retry, the empty value returned.
C18_Witness ==
    \E f \in Fetchers :
        /\ ~ is_searching
        /\ th[f].pc = "done"
        /\ hist.call[f].empty
        /\ hist.call[f].failures = 1
        /\ hist.call[f].attempts = 1
        /\ hist.call[f].retries = 0
        /\ stats.failed_requests = 1
        /\ stats.retried_requests = 0

Progresses == SelectSeq(out, IsProgress)
IsPrefix(s, t) == Len(s) <= Len(t) /\ s = SubSeq(t, 1, Len(s))

\* C20: each completion processed yields one progress event and then the
\* page's result events, one per record kept by the filter, in the order of
\* the page, nothing of another page between them; the pages-completed
\* number of the k-th progress event is k, and it never exceeds the total.
C20_ProgressThenResultsInOrder ==
    /\ \A k \in 1..Len(Progresses) :
          /\ Progresses[k].completed = k
          /\ Progresses[k].completed <= Progresses[k].total
          /\ Progresses[k].total = gen.total_pages
    /\ \A p \in Tasks :
          /\ Cardinality({i \in 1..Len(out) :
                             IsProgress(out[i]) /\ out[i].page = p}) <= 1
          /\ IsPrefix(RecordsOf(ResultsOf(p)), hist.expected[p])
          /\ (/\ caller = "direct" \/ NeverCancelled
              /\ HasProgress(out, p)
              /\ ~ (gen.page = p /\ gen.pc = "results"))
             => RecordsOf(ResultsOf(p)) = hist.expected[p]
    /\ \A i \in 1..Len(out) :
          IsResult(out[i]) =>
              /\ i > 1
              /\ out[i - 1].page = out[i].page
              /\ IsProgress(out[i - 1]) \/ IsResult(out[i - 1])

\* Page 2 reported first with its two records in the order of the page, then
\* page 1 with its record.
C20_Witness ==
    /\ Len(Progresses) = 2
    /\ Progresses[1].page = 2
    /\ Len(ResultsOf(2)) = 2
    /\ ResultsOf(2)[1].rec.name = <<"B">>
    /\ ResultsOf(2)[2].rec.name = <<"b", "A">>
    /\ Len(ResultsOf(1)) = 1

\* C21: no step of a run lowers a counter of the engine, whatever the
\* interleaving of the workers.
C21_CountersNeverDecrease ==
    [][\A k \in Keys : stats'[k] >= stats[k]]_vars

\* C22: at every moment, and so in every snapshot get_stats can return,
\* total_requests >= successful_requests + failed_requests and
\* retried_requests <= failed_requests; and when no fetch is in flight
\* total_requests = successful_requests + failed_requests.
C22_CountersConsistent ==
    /\ stats.total_requests >= stats.successful_requests + stats.failed_requests
    /\ stats.retried_requests <= stats.failed_requests
    /\ NoFetchRunning =>
          stats.total_requests = stats.successful_requests + stats.failed_requests

\* C23: the abort status and the final summary are never both yielded in one
\* run, however the stop predicate changes its value.
C23_AbortExcludesSummary ==
    ~ (Count(out, IsAbort) >= 1 /\ Count(out, IsSummary) >= 1)

\* C24: while an item put by a run_search thread waits on result_queue,
\* check_queue is scheduled, so that the item is taken off; this holds for
\* the items of a search started after an earlier search's done item was
\* processed too.
C24_QueuedItemsArePolled ==
    gui.taken < Len(result_queue) => gui.polling

\* The step is one call of check_queue that takes a done item.
TakesDone ==
    /\ gui'.taken = gui.taken + 1
    /\ IsDoneItem(result_queue[gui'.taken])

\* C25: a search stopped through stop_search cannot affect the search
\* started after it: from the stop on its thread puts nothing but its done
\* item on result_queue, a fetch of its engine that reaches the stop check
\* after is_searching became true again still returns without a request, and
\* check_queue taking its done item does not reset is_searching while the
\* search started after it is in progress.
C25_StoppedSearchIsInert ==
    [][(caller = "run_search" /\ hist.ever_stopped
            /\ gui'.searches = gui.searches) =>
          /\ result_queue' # result_queue =>
                result_queue' = Append(result_queue, Done)
          /\ \A f \in Fetchers :
                (AtCheck(f) /\ hist.resumed) =>
                    /\ th'[f].pc = "done"
                    /\ hist'.req = hist.req
          /\ (TakesDone /\ hist.resumed /\ is_searching) => is_searching']_vars

====
